---- MODULE Spec2Model ----
(***************************************************************************)
(* printable: the Printable wrapper of src/lib.rs.  A Printable holds a    *)
(* cloneable iterator and three borrowed strings (separator, left bound,   *)
(* right bound); Display::fmt writes left bound, the items joined by the   *)
(* separator, and the right bound to a formatter.                          *)
(*                                                                         *)
(* The state is one Printable value, the formatter (sink) a caller hands   *)
(* to fmt, and the position of a running fmt call.  fmt is split at each   *)
(* write to the sink and each call of Iterator::next, the points where the *)
(* sink or the iterator can be observed; the pc labels are the lines of    *)
(* src/lib.rs.                                                             *)
(***************************************************************************)
EXTENDS Integers, Sequences, FiniteSets, TLC

\* Longest finite sequence wrapped.
MaxLen == 3
\* Longest period of an infinite (cycled) sequence wrapped.
MaxCycle == 2
\* Most items the caller has taken from the iterator before wrapping it.
MaxSkip == 1

\* Items (usize values; 12 has a two-character text that contains "1").
Elems == {1, 2, 3, 12}
\* Arguments the caller passes to the three builder methods.
SepArgs == {".", "1"}
LeftArgs == {"{"}
RightArgs == {"}"}
\* A recording sink accepts this many fragments and fails every later write
\* (a fixed-size buffer); a full render of MaxLen items fits exactly.
SinkCap == 2 * MaxLen + 1

VARIABLES
    src,       \* the iterator the caller wraps
    view,      \* the Printable { data, sep, left_bound, right_bound }
    chain,     \* history: the builder calls made, the last call per field, oldest first
    pc,        \* "start" (nothing wrapped), "idle", a line of fmt, or "ret" (fmt returned)
    iterator,  \* fmt's local `iterator`
    v,         \* fmt's local `v`, the item taken last
    sink,      \* the formatter's destination
    calls,     \* history: the writes a recording sink received in this fmt call
    result,    \* what fmt returned: "none" (not returned), "Ok" or "Err"
    outs       \* history: texts of the successful renders of the current view into an empty sink

vars == <<src, view, chain, pc, iterator, v, sink, calls, result, outs>>

----------------------------------------------------------------------------
(* Values *)

SeqsUpTo(n) == UNION {[1..k -> Elems] : k \in 0..n}

\* A cloneable iterator: the items it runs over, the index of the item it
\* yields next, and whether it is a std::iter::Cycle (never exhausted).
\* pos > 1 is an iterator the caller has already advanced.
Iter(items, pos, cyc) == [items |-> items, pos |-> pos, cyc |-> cyc]

Min(a, b) == IF a <= b THEN a ELSE b

Sources ==
    UNION {{Iter(s, p, FALSE) : p \in 1..Min(Len(s), MaxSkip) + 1} : s \in SeqsUpTo(MaxLen)}
        \cup {Iter(s, 1, TRUE) : s \in SeqsUpTo(MaxCycle)}

NoIter == Iter(<<>>, 1, FALSE)

Unbuilt == [data |-> NoIter, sep |-> "", left_bound |-> "", right_bound |-> ""]

\* The sinks a caller hands to fmt: a recording buffer (a String, empty or
\* holding earlier text) and a sink that keeps nothing of what it accepts.
NewSinks ==
    {[kind |-> "buf", pre |-> p, buf |-> p] : p \in {"", "x"}}
        \cup {[kind |-> "discard", pre |-> "", buf |-> ""]}

----------------------------------------------------------------------------
(* Pure parts of the code *)

Digit(d) == <<"0", "1", "2", "3", "4", "5", "6", "7", "8", "9">>[d + 1]

\* Display for an item (usize): its decimal digits.
RECURSIVE ToText(_)
ToText(n) == IF n < 10 THEN Digit(n) ELSE ToText(n \div 10) \o Digit(n % 10)

\* Clone of the wrapped iterator: an independent copy at the same position.
Clone(it) == it

\* Faulty next: yields the item without advancing.
IterNext_Stuck(it) ==
    LET n == Len(it.items)
        p == IF it.cyc /\ it.pos > n THEN 1 ELSE it.pos
    IN  IF p <= n
        THEN [some |-> TRUE, v |-> it.items[p], it |-> it]
        ELSE [some |-> FALSE, v |-> 0, it |-> it]

\* Iterator::next: the item, if any, and the advanced iterator.  A Cycle
\* restarts from its first item when the inner iterator is exhausted.
IterNext(it) ==
    LET n == Len(it.items)
        p == IF it.cyc /\ it.pos > n THEN 1 ELSE it.pos
    IN  IF p <= n
        THEN [some |-> TRUE, v |-> it.items[p], it |-> [it EXCEPT !.pos = p + 1]]
        ELSE [some |-> FALSE, v |-> 0, it |-> it]

\* IntoIterator::into_iter of the value given to From.
IntoIter(value) == [items |-> value.items, pos |-> value.pos, cyc |-> value.cyc]

\* Faulty default: separator without the space.
printable_Comma(self) ==
    [data |-> self, sep |-> ",", left_bound |-> "[", right_bound |-> "]"]

printable(self) == [data |-> self, sep |-> ", ", left_bound |-> "[", right_bound |-> "]"]

from(value) == printable(IntoIter(value))

with_separator(self, sep) ==
    [data |-> self.data, sep |-> sep,
     left_bound |-> self.left_bound, right_bound |-> self.right_bound]

\* Faulty builder: rebuilds the view with the default separator.
with_left_bound_ResetsSep(self, left_bound) ==
    [data |-> self.data, sep |-> ", ",
     left_bound |-> left_bound, right_bound |-> self.right_bound]

with_left_bound(self, left_bound) ==
    [data |-> self.data, sep |-> self.sep,
     left_bound |-> left_bound, right_bound |-> self.right_bound]

\* Faulty builder: stores the argument in the other bound.
with_right_bound_SetsLeft(self, right_bound) ==
    [data |-> self.data, sep |-> self.sep,
     left_bound |-> right_bound, right_bound |-> self.right_bound]

with_right_bound(self, right_bound) ==
    [data |-> self.data, sep |-> self.sep,
     left_bound |-> self.left_bound, right_bound |-> right_bound]

\* Formatter::write_str on the sink: an accepted fragment is appended, a
\* failed write appends nothing.
WriteStr(s, text, ok) ==
    IF ok /\ s.kind = "buf" THEN [s EXCEPT !.buf = @ \o text] ELSE s

\* Faulty propagation: the write's result is dropped (no `?`).
Try_Ignored(ok, next) == next

\* The `?` after a write: go on when it succeeded, return its error otherwise.
Try(ok, next) == IF ok THEN next ELSE "ret"

\* Whether a write can succeed, can fail, or both.
Outcomes == IF sink.kind = "buf" /\ Len(calls) >= SinkCap THEN {FALSE} ELSE BOOLEAN

\* What a recording sink notes of a write.
Noted(kind, text, ok) ==
    IF sink.kind = "buf" THEN Append(calls, [kind |-> kind, text |-> text, ok |-> ok])
    ELSE calls

\* The builder calls so far, with (field, arg) now the latest.
Push(c, field, arg) ==
    SelectSeq(c, LAMBDA e : e.field # field) \o <<[field |-> field, arg |-> arg]>>

----------------------------------------------------------------------------
(* Construction and configuration *)

Init ==
    /\ src \in Sources
    /\ view = Unbuilt
    /\ chain = <<>>
    /\ pc = "start"
    /\ iterator = NoIter
    /\ v = 0
    /\ sink \in NewSinks
    /\ calls = <<>>
    /\ result = "none"
    /\ outs = {}

Printable ==
    /\ pc = "start"
    /\ view' = printable(src)
    /\ pc' = "idle"
    /\ UNCHANGED <<src, chain, iterator, v, sink, calls, result, outs>>

From ==
    /\ pc = "start"
    /\ view' = from(src)
    /\ pc' = "idle"
    /\ UNCHANGED <<src, chain, iterator, v, sink, calls, result, outs>>

WithSeparator ==
    /\ pc = "idle"
    /\ \E s \in SepArgs :
        /\ view' = with_separator(view, s)
        /\ chain' = Push(chain, "sep", s)
    /\ outs' = {}
    /\ UNCHANGED <<src, pc, iterator, v, sink, calls, result>>

WithLeftBound ==
    /\ pc = "idle"
    /\ \E s \in LeftArgs :
        /\ view' = with_left_bound(view, s)
        /\ chain' = Push(chain, "left_bound", s)
    /\ outs' = {}
    /\ UNCHANGED <<src, pc, iterator, v, sink, calls, result>>

WithRightBound ==
    /\ pc = "idle"
    /\ \E s \in RightArgs :
        /\ view' = with_right_bound(view, s)
        /\ chain' = Push(chain, "right_bound", s)
    /\ outs' = {}
    /\ UNCHANGED <<src, pc, iterator, v, sink, calls, result>>

----------------------------------------------------------------------------
(* Display::fmt *)

\* One write of fmt followed by `?`.
Write(kind, text, next) ==
    \E ok \in Outcomes :
        /\ sink' = WriteStr(sink, text, ok)
        /\ calls' = Noted(kind, text, ok)
        /\ pc' = Try(ok, next)
        /\ result' = IF pc' = "ret" THEN "Err" ELSE result

\* The caller calls fmt(&self, f).
FmtEnter ==
    /\ pc = "idle"
    /\ pc' = "l165"
    /\ UNCHANGED <<src, view, chain, iterator, v, sink, calls, result, outs>>

\* f.write_str(left_bound)?;
FmtLeft ==
    /\ pc = "l165"
    /\ Write("left_bound", view.left_bound, "l166")
    /\ UNCHANGED <<src, view, chain, iterator, v, outs>>

\* Faulty fmt: the first item is taken but never written.
FmtClone_SkipsFirst ==
    /\ pc = "l166"
    /\ LET nx == IterNext(Clone(view.data))
       IN  /\ iterator' = nx.it
           /\ v' = nx.v
           /\ pc' = IF nx.some THEN "l170" ELSE "l176"
    /\ UNCHANGED <<src, view, chain, sink, calls, result, outs>>

\* Faulty fmt: the first item is treated like the others, separator first.
FmtClone_SepFirst ==
    /\ pc = "l166"
    /\ LET nx == IterNext(Clone(view.data))
       IN  /\ iterator' = nx.it
           /\ v' = nx.v
           /\ pc' = IF nx.some THEN "l172" ELSE "l176"
    /\ UNCHANGED <<src, view, chain, sink, calls, result, outs>>

\* Faulty fmt: returns at once when there is no item.
FmtClone_EmptyReturns ==
    /\ pc = "l166"
    /\ LET nx == IterNext(Clone(view.data))
       IN  /\ iterator' = nx.it
           /\ v' = nx.v
           /\ pc' = IF nx.some THEN "l169" ELSE "ret"
           /\ result' = IF nx.some THEN result ELSE "Ok"
    /\ UNCHANGED <<src, view, chain, sink, calls, outs>>

\* Faulty fmt: advances the wrapped iterator itself instead of a clone.
FmtClone_InPlace ==
    /\ pc = "l166"
    /\ LET nx == IterNext(view.data)
       IN  /\ iterator' = nx.it
           /\ view' = [view EXCEPT !.data = nx.it]
           /\ v' = nx.v
           /\ pc' = IF nx.some THEN "l169" ELSE "l176"
    /\ UNCHANGED <<src, chain, sink, calls, result, outs>>

\* let mut iterator = data.clone(); if let Some(v) = iterator.next()
FmtClone ==
    /\ pc = "l166"
    /\ LET nx == IterNext(Clone(view.data))
       IN  /\ iterator' = nx.it
           /\ v' = nx.v
           /\ pc' = IF nx.some THEN "l169" ELSE "l176"
    /\ UNCHANGED <<src, view, chain, sink, calls, result, outs>>

\* v.fmt(f)?;
FmtFirst ==
    /\ pc = "l169"
    /\ Write("item", ToText(v), "l170")
    /\ UNCHANGED <<src, view, chain, iterator, v, outs>>

\* for v in iterator
FmtLoop ==
    /\ pc = "l170"
    /\ LET nx == IterNext(iterator)
       IN  /\ iterator' = nx.it
           /\ v' = nx.v
           /\ pc' = IF nx.some THEN "l172" ELSE "l176"
    /\ UNCHANGED <<src, view, chain, sink, calls, result, outs>>

\* Faulty fmt: the separator is written but the item after it is not.
FmtSep_SkipsItem ==
    /\ pc = "l172"
    /\ Write("sep", view.sep, "l170")
    /\ UNCHANGED <<src, view, chain, iterator, v, outs>>

\* f.write_str(sep)?;
FmtSep ==
    /\ pc = "l172"
    /\ Write("sep", view.sep, "l173")
    /\ UNCHANGED <<src, view, chain, iterator, v, outs>>

\* v.fmt(f)?
FmtItem ==
    /\ pc = "l173"
    /\ Write("item", ToText(v), "l170")
    /\ UNCHANGED <<src, view, chain, iterator, v, outs>>

\* f.write_str(right_bound)
FmtRight ==
    /\ pc = "l176"
    /\ \E ok \in Outcomes :
        /\ sink' = WriteStr(sink, view.right_bound, ok)
        /\ calls' = Noted("right_bound", view.right_bound, ok)
        /\ result' = IF ok THEN "Ok" ELSE "Err"
        /\ outs' = IF ok /\ sink.kind = "buf" /\ sink.pre = ""
                   THEN outs \cup {sink'.buf} ELSE outs
    /\ pc' = "ret"
    /\ UNCHANGED <<src, view, chain, iterator, v>>

\* The caller takes the result and the text, and brings a sink for the next call.
Release ==
    /\ pc = "ret"
    /\ pc' = "idle"
    /\ sink' \in NewSinks
    /\ calls' = <<>>
    /\ result' = "none"
    /\ iterator' = NoIter
    /\ v' = 0
    /\ UNCHANGED <<src, view, chain, outs>>

Fmt == FmtLeft \/ FmtClone \/ FmtFirst \/ FmtLoop \/ FmtSep \/ FmtItem \/ FmtRight

Next ==
    \/ Printable
    \/ From
    \/ WithSeparator
    \/ WithLeftBound
    \/ WithRightBound
    \/ FmtEnter
    \/ FmtLeft
    \/ FmtClone
    \/ FmtFirst
    \/ FmtLoop
    \/ FmtSep
    \/ FmtItem
    \/ FmtRight
    \/ Release

Spec == Init /\ [][Next]_vars

\* fmt is a synchronous call: once entered it runs on until it returns.
FairSpec == Spec /\ WF_vars(Fmt)

----------------------------------------------------------------------------
(* What a render is expected to write, stated apart from fmt's steps *)

\* The wrapped sequence is finite (a Cycle over nothing yields nothing).
IsFinite(it) == ~it.cyc \/ it.items = <<>>

\* The items e1..eN a finite iterator still yields, in traversal order.
Elements(it) == IF it.cyc THEN <<>> ELSE SubSeq(it.items, it.pos, Len(it.items))

\* The j-th item an iterator yields (j >= 1).
ItemAt(it, j) ==
    IF it.cyc THEN it.items[((it.pos + j - 2) % Len(it.items)) + 1]
    ELSE it.items[it.pos + j - 1]

RECURSIVE Joined(_, _)
Joined(s, sep) ==
    IF s = <<>> THEN ""
    ELSE IF Len(s) = 1 THEN ToText(s[1])
    ELSE ToText(s[1]) \o sep \o Joined(Tail(s), sep)

Rendered(p) == p.left_bound \o Joined(Elements(p.data), p.sep) \o p.right_bound

\* Number of fragments of a complete render of a finite sequence.
Total(p) == IF Elements(p.data) = <<>> THEN 2 ELSE 2 * Len(Elements(p.data)) + 1

\* The i-th fragment of the sequence left_bound, e1, sep, e2, ..., eN, right_bound.
FragAt(p, i) ==
    IF i = 1 THEN [kind |-> "left_bound", text |-> p.left_bound]
    ELSE IF IsFinite(p.data) /\ i = Total(p)
         THEN [kind |-> "right_bound", text |-> p.right_bound]
    ELSE IF i % 2 = 0 THEN [kind |-> "item", text |-> ToText(ItemAt(p.data, i \div 2))]
    ELSE [kind |-> "sep", text |-> p.sep]

\* The fragments the recording sink accepted in this fmt call.
Accepted == SelectSeq(calls, LAMBDA c : c.ok)

RECURSIVE Concat(_)
Concat(fs) == IF fs = <<>> THEN "" ELSE fs[1].text \o Concat(Tail(fs))

Positions(kind) == {i \in DOMAIN calls : calls[i].kind = kind}

\* fmt returned Ok(()) into a recording sink, having rendered a finite sequence.
Rendering == pc = "ret" /\ result = "Ok" /\ sink.kind = "buf" /\ IsFinite(view.data)

\* The argument of the last builder call that set `field`, or `before`.
LastArg(field, before) ==
    LET hits == {i \in DOMAIN chain : chain[i].field = field}
    IN  IF hits = {} THEN before ELSE chain[CHOOSE i \in hits : TRUE].arg

RenderPcs == {"l165", "l166", "l169", "l170", "l172", "l173", "l176"}

----------------------------------------------------------------------------
(* Claims *)

\* C1: a render on which no write fails appends to the sink exactly
\* left_bound, text(e1), then sep and text(ei) for i = 2..N in traversal
\* order, then right_bound, and nothing else; item text is written verbatim.
C1_RenderAppendsJoined ==
    Rendering => sink.buf = sink.pre \o Rendered(view)

\* An item whose text holds the separator ("12" with separator "1") rendered,
\* after earlier sink content, next to an item whose text is the separator.
C1_Witness ==
    /\ Rendering
    /\ Elements(view.data) = <<12, 1, 3>>
    /\ view.sep = "1"
    /\ sink.pre = "x"
    /\ sink.buf = "x[121113]"

\* C2: in a successful render of N >= 1 items the separator is written
\* exactly N-1 times, each time right after an item and right before the next
\* item, never next to a bound; one item renders as left_bound text right_bound.
C2_SeparatorOnlyBetween ==
    sink.kind = "buf" =>
        /\ \A i \in Positions("sep") :
            /\ calls[i].text = view.sep
            /\ i > 1 /\ calls[i - 1].kind = "item" /\ calls[i - 1].ok
            /\ i < Len(calls) => calls[i + 1].kind = "item"
            /\ i = Len(calls) => ~(pc = "ret" /\ result = "Ok")
        /\ (Rendering /\ Elements(view.data) # <<>>) =>
            Cardinality(Positions("sep")) = Len(Elements(view.data)) - 1
        /\ (Rendering /\ Len(Elements(view.data)) = 1) =>
            /\ Positions("sep") = {}
            /\ sink.buf = sink.pre \o view.left_bound
                              \o ToText(Elements(view.data)[1]) \o view.right_bound

\* Three items rendered with two separator writes.
C2_Witness ==
    /\ Rendering
    /\ Len(Elements(view.data)) = 3
    /\ Cardinality(Positions("sep")) = 2
    /\ view.sep = "."

\* C3: the bounds are written unconditionally: an empty sequence renders as
\* left_bound right_bound with nothing in between ("[]" by default); the left
\* bound is the first write of every render and the right bound the last
\* write of every successful one.
C3_BoundsUnconditional ==
    sink.kind = "buf" =>
        /\ calls # <<>> =>
            calls[1].kind = "left_bound" /\ calls[1].text = view.left_bound
        /\ Positions("left_bound") \subseteq {1}
        /\ \A i \in Positions("right_bound") :
            i = Len(calls) /\ calls[i].text = view.right_bound
        /\ (pc = "ret" /\ result = "Ok") =>
            calls # <<>> /\ calls[Len(calls)].kind = "right_bound"
        /\ (Rendering /\ Elements(view.data) = <<>>) =>
            /\ Len(calls) = 2
            /\ sink.buf = sink.pre \o view.left_bound \o view.right_bound
            /\ (chain = <<>> /\ sink.pre = "") => sink.buf = "[]"

\* An empty sequence rendered under the default configuration.
C3_Witness ==
    /\ Rendering
    /\ view.data.items = <<>>
    /\ chain = <<>>
    /\ sink.buf = "[]"

\* C4: a view produced by printable() or by From has separator ", ", bounds
\* "[" and "]" and wraps the given sequence unchanged; a freshly wrapped
\* 1,2,3 renders "[1, 2, 3]".
C4_ConstructionDefaults ==
    /\ (pc # "start" /\ chain = <<>>) =>
        view = [data |-> src, sep |-> ", ", left_bound |-> "[", right_bound |-> "]"]
    /\ (Rendering /\ chain = <<>> /\ sink.pre = "" /\ Elements(src) = <<1, 2, 3>>) =>
        sink.buf = "[1, 2, 3]"

\* A freshly wrapped 1,2,3 rendered.
C4_Witness ==
    /\ Rendering
    /\ chain = <<>>
    /\ src = Iter(<<1, 2, 3>>, 1, FALSE)
    /\ sink.buf = "[1, 2, 3]"

\* C5: each builder method returns a view with the named field equal to its
\* argument and the other two fields and the wrapped sequence as they were;
\* neither a builder method nor a construction advances the sequence, writes
\* to a sink or returns a failure.
C5_BuilderFrame ==
    [][/\ (pc = "idle" /\ pc' = "idle") =>
            /\ \A s \in SepArgs : chain' = Push(chain, "sep", s) =>
                view' = [view EXCEPT !.sep = s]
            /\ \A s \in LeftArgs : chain' = Push(chain, "left_bound", s) =>
                view' = [view EXCEPT !.left_bound = s]
            /\ \A s \in RightArgs : chain' = Push(chain, "right_bound", s) =>
                view' = [view EXCEPT !.right_bound = s]
            /\ view'.data = view.data
            /\ <<sink, calls, iterator, v, result>>' = <<sink, calls, iterator, v, result>>
       /\ (pc = "start" /\ pc' = "idle") =>
            /\ view'.data = src
            /\ <<sink, calls, iterator, v, result>>' = <<sink, calls, iterator, v, result>>
       /\ pc' \in {"start", "idle"} => result' = "none"
    ]_vars

\* with_left_bound was called last, on a view over items whose separator and
\* right bound had been changed before.
C5_Witness ==
    /\ pc = "idle"
    /\ Len(chain) = 3
    /\ chain[3].field = "left_bound"
    /\ view.left_bound = "{" /\ view.sep = "1" /\ view.right_bound = "}"
    /\ Len(Elements(view.data)) = 2

\* C6: after any chain of builder calls each field holds the argument of the
\* last call that set it, or its value from before the chain; calls on
\* different fields commute, and "." "{" "}" applied in any order to a
\* wrapped 1,2,3 render "{1.2.3}".
C6_LastWriteWins ==
    /\ pc # "start" =>
        /\ view.sep = LastArg("sep", ", ")
        /\ view.left_bound = LastArg("left_bound", "[")
        /\ view.right_bound = LastArg("right_bound", "]")
    /\ (/\ Rendering
        /\ Len(chain) = 3
        /\ LastArg("sep", ", ") = "."
        /\ sink.pre = ""
        /\ Elements(view.data) = <<1, 2, 3>>) => sink.buf = "{1.2.3}"

\* One of the six orders (right bound, then separator, then left bound) rendered.
C6_Witness ==
    /\ Rendering
    /\ chain = <<[field |-> "right_bound", arg |-> "}"], [field |-> "sep", arg |-> "."],
                 [field |-> "left_bound", arg |-> "{"]>>
    /\ Elements(view.data) = <<1, 2, 3>>
    /\ sink.buf = "{1.2.3}"

\* C7: render is read-only and repeatable: no step of fmt, successful or
\* failed, changes the view's sequence (its position included), separator or
\* bounds, and all successful renders of an unmodified view into an empty
\* sink give the same text.
C7_RenderReadOnly ==
    /\ [][(pc \in RenderPcs \/ pc' \in RenderPcs) => view' = view]_vars
    /\ [](Cardinality(outs) <= 1)

\* A later render of a view already rendered once, about to write the right
\* bound, has written the same text as the earlier one.
C7_Witness ==
    /\ pc = "l176"
    /\ sink.kind = "buf" /\ sink.pre = ""
    /\ Len(Elements(view.data)) = 3
    /\ outs = {sink.buf \o view.right_bound}

\* C8: a failed write is the last write of the render, nothing is taken from
\* the iterator after it, and fmt returns that failure; fmt returns Ok exactly
\* when every write it attempted succeeded.  Construction and configuration
\* return no failure.
C8_FailureStopsRender ==
    /\ (result # "none") <=> (pc = "ret")
    /\ sink.kind = "buf" =>
        /\ \A i \in DOMAIN calls : ~calls[i].ok =>
            /\ i = Len(calls)
            /\ pc = "ret" /\ result = "Err"
            /\ iterator =
                 IF i = 1 THEN NoIter
                 ELSE [view.data EXCEPT !.pos =
                          IF ~IsFinite(view.data)
                          THEN ((view.data.pos + (i + 1) \div 2 - 2)
                                                    % Len(view.data.items)) + 2
                          ELSE Min(view.data.pos + (i + 1) \div 2, Len(view.data.items) + 1)]
        /\ pc = "ret" => (result = "Ok" <=> \A i \in DOMAIN calls : calls[i].ok)

\* The write of the second separator failed: fmt returned the error with the
\* third item taken and nothing written after.
C8_Witness ==
    /\ pc = "ret" /\ result = "Err"
    /\ sink.kind = "buf"
    /\ Len(calls) = 5
    /\ calls[5].kind = "sep" /\ ~calls[5].ok
    /\ Len(Elements(view.data)) = 3

\* C9 as claimed: every fmt call returns, over a finite or an infinite sequence.
C9_EveryRenderReturns == (pc = "l165") ~> (pc = "ret")

\* C9 as it holds: every fmt call over a finite sequence returns; over an
\* infinite sequence fmt returns only with the failure of a write.
C9_FiniteRenderReturns ==
    /\ (pc = "l165" /\ IsFinite(view.data)) ~> (pc = "ret")
    /\ []((pc = "ret" /\ ~IsFinite(view.data)) => result = "Err")

\* A render of the longest finite sequence into a sink that keeps nothing returned Ok.
C9_Witness ==
    /\ pc = "ret" /\ result = "Ok"
    /\ sink.kind = "discard"
    /\ Len(Elements(view.data)) = 3
    /\ iterator.pos = Len(iterator.items) + 1

\* C10: at every point of a render, and after one stopped by a failed write,
\* the fragments the sink accepted are a prefix of left_bound, text(e1), sep,
\* text(e2), ..., right_bound: none skipped, duplicated or out of order.
C10_AcceptedIsPrefix ==
    sink.kind = "buf" =>
        /\ \A i \in DOMAIN Accepted :
            /\ IsFinite(view.data) => i <= Total(view)
            /\ Accepted[i].kind = FragAt(view, i).kind
            /\ Accepted[i].text = FragAt(view, i).text
        /\ sink.buf = sink.pre \o Concat(Accepted)

\* A render stopped by the failed write of the second item, leaving
\* left_bound, the first item and one separator.
C10_Witness ==
    /\ pc = "ret" /\ result = "Err"
    /\ sink.kind = "buf"
    /\ Len(Accepted) = 3
    /\ Len(calls) = 4
    /\ Len(Elements(view.data)) = 3
    /\ sink.buf = sink.pre \o "{12."

====
